---- MODULE Spec2Model ----
(***************************************************************************)
(* A model of src/web/how-my-heart/src/App.jsx: the serial ingestion read  *)
(* loop, the four buffers it fills, the once-per-second health scorer, the *)
(* calibration timer and the connect / disconnect handlers, together with  *)
(* the LineBreakTransformer that frames the text stream.                   *)
(*                                                                         *)
(* Numbers.  Floats are fixed-point integers in tenths (parseFloat("0.2")  *)
(* is 2, parseFloat("2.5") is 25); BPM values are plain integers.  The     *)
(* arithmetic of the scorer is exact (no binary rounding of the doubles).  *)
(* Date.now() is a non-decreasing wall clock in abstract units; the timers *)
(* run on their own clock, whose tick is one second: what happens within a *)
(* second happens between two ticks, in any order.                         *)
(*                                                                         *)
(* The read loops that are alive form a bag, keyed by the value of         *)
(* monitoringActive their closure captured; the pending calibration        *)
(* timeouts form a bag, keyed by the seconds they have left.               *)
(*                                                                         *)
(* The state space of the whole program is too large to enumerate at once, *)
(* so every specification below runs the same actions on a part of the     *)
(* inputs: Spec runs every handler on lines of fixed values, SpecCadence   *)
(* does so on lines that change the BPM, SpecRing runs the handlers that   *)
(* write or guard the buffers on lines whose values count the pushes,      *)
(* SpecLines does so on lines of every kind, SpecDisplay runs every        *)
(* handler with the history of the assessment, SpecScore runs the handlers *)
(* that write what compute reads, on lines of varied values, SpecCompute   *)
(* applies compute to lists as long as its windows, and SpecFramer runs    *)
(* the line framer.                                                        *)
(*                                                                         *)
(* The display-only state lastSerialLine, lastParsedBpm, lastParsedIrr and *)
(* showHealthInfo is left out: nothing in the pipeline reads it.           *)
(***************************************************************************)
EXTENDS Integers, Sequences, FiniteSets, TLC

\* ---------------------------------------------------------------- bounds
\* Capacities of the buffers, scaled down (1500, 50 and 10 in the source).
MAX_SAMPLES == 4
MAX_BEATS == 3
MAX_IRR == 2
\* Read loops alive at once, and calibration timeouts pending at once.
MaxSessions == 2
\* Largest value Date.now() returns.
MaxNow == 1
\* Characters of the text fed to the line framer.
MaxText == 4
\* Lengths of the beat list and of the irregularity history that compute is
\* applied to on its own (the program's buffers hold 50 and 10).
MaxBeatList == 10
MaxHistory == 6

\* ------------------------------------------------------- program constants
CalibrationSeconds == 4
IntervalSeconds == 1
IrrWindow == 5
IbiWindow == 8
MinBeats == 3
DefaultHr == 70

\* ------------------------------------------------------------ helper maths
Min(a, b) == IF a < b THEN a ELSE b
Max(a, b) == IF a > b THEN a ELSE b

RECURSIVE SumSeq(_)
SumSeq(s) == IF s = <<>> THEN 0 ELSE Head(s) + SumSeq(Tail(s))

\* Array.prototype.slice(-n): the last n elements (all of them when shorter).
SliceLast(s, n) == IF Len(s) <= n THEN s ELSE SubSeq(s, Len(s) - n + 1, Len(s))

\* ------------------------------------------------------------ wire format
\* A field of a line: text that parseFloat reads as a number (a decimal
\* numeral, which other characters may follow), with its value in tenths, or
\* text that it reads as NaN.
Num(x) == [num |-> TRUE, tenths |-> x]
Junk == [num |-> FALSE, tenths |-> 0]

\* The result of a parse: a number or NaN; null stands for a missing field.
NaN == [null |-> FALSE, nan |-> TRUE, v |-> 0]
Null == [null |-> TRUE, nan |-> FALSE, v |-> 0]
Number(x) == [null |-> FALSE, nan |-> FALSE, v |-> x]
\* JavaScript's truthiness of such a value: null, NaN and 0 are falsy.
Truthy(x) == ~x.null /\ ~x.nan /\ x.v # 0

\* parseFloat: the numeral's value (in tenths); NaN for a non-numeral.
ParseFloat(tok) == IF tok.num THEN Number(tok.tenths) ELSE NaN

\* parseInt: the integer part of the numeral, truncated towards zero.
ParseInt(tok) ==
  IF ~tok.num THEN NaN
  ELSE IF tok.tenths >= 0 THEN Number(tok.tenths \div 10)
  ELSE Number(-((-tok.tenths) \div 10))

\* A line as the reader yields it: whether it is empty, whether it contains
\* one of the status keywords (Calibration, Starting, Baseline, Gain), whether
\* it contains Complete, and its comma-separated fields.
Line(blank, kw, complete, parts) ==
  [blank |-> blank, kw |-> kw, complete |-> complete, parts |-> parts]

LeadITok == Num(1)
LeadIITok == Num(2)
DataLine(parts) == Line(FALSE, FALSE, FALSE, parts)

\* ------------------------------------------------------------- the scorer
\* computeStats: the mean and the variance (sd squared) of arr, as exact
\* fractions.
ComputeStats(arr) ==
  IF Len(arr) = 0
  THEN [meanNum |-> 0, meanDen |-> 1, varNum |-> 0, varDen |-> 1]
  ELSE LET n == Len(arr)
           sum == SumSeq(arr)
           sumsq == SumSeq([i \in 1..n |-> arr[i] * arr[i]])
       IN [meanNum |-> sum, meanDen |-> n,
           varNum |-> n * sumsq - sum * sum, varDen |-> n * n]

\* An irregularity figure: num/den, or its square root when sq is set.
Ratio(num, den) == [sq |-> FALSE, num |-> num, den |-> den]
Root(num, den) == [sq |-> TRUE, num |-> num, den |-> den]

\* The mean of the device's latest values (tenths, hence the 10).
DeviceIrregularity(hist) ==
  LET recent == SliceLast(hist, IrrWindow)
  IN Ratio(SumSeq(recent), 10 * Len(recent))

\* The fallback: min(1, 3 * cv) of the last inter-beat intervals, where
\* cv = sd / mean when mean > 0 and 0 otherwise.
InterBeatIntervals(ts) == [i \in 1..(Len(ts) - 1) |-> ts[i + 1] - ts[i]]

\* The same over all the intervals there are.
LocalIrregularityAll(beatList) ==
  LET st == ComputeStats(InterBeatIntervals(beatList))
      num == 9 * st.varNum * st.meanDen * st.meanDen
      den == st.varDen * st.meanNum * st.meanNum
  IN IF st.meanNum <= 0 THEN Root(0, 1)
     ELSE IF num >= den THEN Root(1, 1)
     ELSE Root(num, den)

LocalIrregularity(beatList) ==
  LET last == SliceLast(InterBeatIntervals(beatList), IbiWindow)
      st == ComputeStats(last)
      num == 9 * st.varNum * st.meanDen * st.meanDen
      den == st.varDen * st.meanNum * st.meanNum
  IN IF st.meanNum <= 0 THEN Root(0, 1)
     ELSE IF num >= den THEN Root(1, 1)
     ELSE Root(num, den)

\* Math.round(irregularity * 40), halves rounded up.
RoundTimes40(irr) ==
  IF irr.sq
  THEN Cardinality({k \in 1..40 :
         (2 * k - 1) * (2 * k - 1) * irr.den <= 6400 * irr.num})
  ELSE (80 * irr.num + irr.den) \div (2 * irr.den)

\* Thresholds that take in the rate they should leave out.
BradyScoreInclusive(hr) == IF hr <= 50 THEN 40 ELSE IF hr <= 60 THEN 20 ELSE 0
BradyScore(hr) == IF hr < 50 THEN 40 ELSE IF hr < 60 THEN 20 ELSE 0
\* A second threshold short of a digit.
TachyScoreTypo(hr) == IF hr > 120 THEN 40 ELSE IF hr > 10 THEN 20 ELSE 0
TachyScore(hr) == IF hr > 120 THEN 40 ELSE IF hr > 100 THEN 20 ELSE 0
\* A clamp with no upper end.
ClampBelow(x) == Max(0, x)
Clamp(x) == Max(0, Min(100, x))
Level(score) ==
  IF score >= 70 THEN "High" ELSE IF score >= 35 THEN "Moderate" ELSE "Normal"

HasArduinoIrr(hist) == Len(hist) > 0
\* A test that looks at the beats alone.
InsufficientBeats(beatList, hist) == Len(beatList) < MinBeats
Insufficient(beatList, hist) == ~HasArduinoIrr(hist) /\ Len(beatList) < MinBeats

\* A choice that prefers the beats when there are enough of them.
IrregularityBeatsFirst(beatList, hist) ==
  IF Len(beatList) >= MinBeats THEN LocalIrregularity(beatList)
  ELSE DeviceIrregularity(hist)

Irregularity(beatList, hist) ==
  IF HasArduinoIrr(hist) THEN DeviceIrregularity(hist)
  ELSE LocalIrregularity(beatList)

\* bpm || 70, with 0 for null.
HeartRate(b) == IF b = 0 THEN DefaultHr ELSE b

\* ------------------------------------------------------------------ state
VARIABLES
  port,                \* whether a port is held (null or not)
  calibrating,
  monitoringActive,
  bpm,                 \* 0 for null
  samples,             \* samplesRef.current: Lead II
  samples2,            \* samples2Ref.current: Lead I
  beats,               \* beatsRef.current
  arduinoIrregularity, \* window.arduinoIrregularity (empty when undefined)
  healthCategory,
  breakdown,
  readLoops,           \* how many read loops are alive, by captured flag
  calTimeouts,         \* how many 4 s timeouts are pending, by seconds left
  scoreTimer,          \* seconds left until the interval calls compute
  now,                 \* the last value of Date.now()
  sinceCompute,        \* history: seconds since compute last ran (saturating)
  pushedLeads,         \* history: pushes into samples since it was emptied
  pushedBeats,         \* history: pushes into beats since it was emptied
  pushedIrr,           \* history: pushes into arduinoIrregularity since then
  container,           \* LineBreakTransformer.container
  enqueued,            \* the lines the transformer has enqueued
  text,                \* the text the transport delivers to the transformer
  fed,                 \* how many characters of it have been delivered
  flushed,             \* whether flush has been called
  straddled,           \* history: a chunk has ended in the middle of a line
  lastKind,            \* history: the kind of line the last step processed
  fresh                \* history: no disconnect since healthCategory was set

pushVars == <<pushedLeads, pushedBeats, pushedIrr>>
historyVars == <<sinceCompute, pushVars, straddled, lastKind, fresh>>
framerVars == <<container, enqueued, text, fed, flushed>>
\* What stands still while a handler of the App runs, and its parts.
quiet == <<historyVars, framerVars>>
quietButSince == <<pushVars, straddled, lastKind, fresh, framerVars>>
quietButPushes == <<sinceCompute, straddled, lastKind, fresh, framerVars>>
quietButLines == <<sinceCompute, straddled, fresh, framerVars>>
quietButFresh == <<sinceCompute, pushVars, straddled, lastKind, framerVars>>
bufferVars == <<samples, samples2, beats, arduinoIrregularity, now>>
scoreVars == <<healthCategory, breakdown>>
timerVars == <<calTimeouts, scoreTimer>>

vars ==
  <<port, calibrating, monitoringActive, bpm, bufferVars, scoreVars,
    readLoops, timerVars, historyVars, framerVars>>

\* The App after it is mounted.
AppInit ==
  /\ port = FALSE
  /\ calibrating = FALSE
  /\ monitoringActive = FALSE
  /\ bpm = 0
  /\ samples = <<>>
  /\ samples2 = <<>>
  /\ beats = <<>>
  /\ arduinoIrregularity = <<>>
  /\ healthCategory = [level |-> "--", score |-> 0]
  /\ breakdown = [brady |-> 0, tachy |-> 0, irregularity |-> 0]
  /\ readLoops = [c \in BOOLEAN |-> 0]
  /\ calTimeouts = [r \in 0..CalibrationSeconds |-> 0]
  /\ scoreTimer = IntervalSeconds
  /\ now = 0

HistoryInit ==
  /\ sinceCompute = 0
  /\ pushedLeads = 0
  /\ pushedBeats = 0
  /\ pushedIrr = 0
  /\ straddled = FALSE
  /\ lastKind = "none"
  /\ fresh = TRUE

\* A LineBreakTransformer as constructed, and the text it is to be fed.
FramerInit(t) ==
  /\ container = <<>>
  /\ enqueued = <<>>
  /\ text = t
  /\ fed = 0
  /\ flushed = FALSE

Init == AppInit /\ HistoryInit /\ FramerInit(<<>>)

LiveLoops == readLoops[FALSE] + readLoops[TRUE]
PendingTimeouts == SumSeq([i \in 1..(CalibrationSeconds + 1) |-> calTimeouts[i - 1]])

\* The effect [bpm] re-runs when bpm changes: clearInterval, then a new
\* setInterval(compute, 1000).
IntervalAfterSetBpm(newBpm) ==
  IF newBpm # bpm THEN IntervalSeconds ELSE scoreTimer

\* ------------------------------------------------------------ the buffers
\* A splice that drops the newest n items instead of the oldest: it keeps the
\* lengths and loses the order of eviction.
SpliceBack(buf, n) ==
  IF n <= 0 THEN buf ELSE SubSeq(buf, 1, Len(buf) - Min(n, Len(buf)))

\* arr.splice(0, n): drop the first n items (none when n <= 0).
SpliceFront(buf, n) ==
  IF n <= 0 THEN buf ELSE SubSeq(buf, Min(n, Len(buf)) + 1, Len(buf))

\* samplesRef.current.push(val2); samples2Ref.current.push(val1); then both
\* are trimmed when samples is over MAX_SAMPLES.
PushSamples(buf, v) ==
  LET pushed == Append(buf, v)
  IN IF Len(pushed) > MAX_SAMPLES
     THEN SpliceFront(pushed, Len(pushed) - MAX_SAMPLES)
     ELSE pushed

\* A push of the second lead that is never trimmed.
PushSamples2Untrimmed(buf, v, samplesLen) == Append(buf, v)

PushSamples2(buf, v, samplesLen) ==
  LET pushed == Append(buf, v)
  IN IF samplesLen > MAX_SAMPLES
     THEN SpliceFront(pushed, Len(pushed) - MAX_SAMPLES)
     ELSE pushed

\* A push at the front (unshift), trimmed at the front.
PushBeatFront(buf, t) ==
  LET pushed == <<t>> \o buf
  IN IF Len(pushed) > MAX_BEATS
     THEN SpliceFront(pushed, Len(pushed) - MAX_BEATS)
     ELSE pushed

PushBeat(buf, t) ==
  LET pushed == Append(buf, t)
  IN IF Len(pushed) > MAX_BEATS
     THEN SpliceFront(pushed, Len(pushed) - MAX_BEATS)
     ELSE pushed

\* A push that shifts one item later than the capacity asks for.
PushIrregularityLate(buf, v) ==
  LET pushed == Append(buf, v)
  IN IF Len(pushed) > MAX_IRR + 1 THEN Tail(pushed) ELSE pushed

\* push, then one shift() when over the capacity.
PushIrregularity(buf, v) ==
  LET pushed == Append(buf, v)
  IN IF Len(pushed) > MAX_IRR THEN Tail(pushed) ELSE pushed

\* ---------------------------------------------------------- the read loop
\* The fields connectSerial extracts from a line.
Val1(line) == ParseFloat(line.parts[1])
Val2(line) == ParseFloat(line.parts[2])
ArduinoBPM(line) ==
  IF Len(line.parts) >= 3 THEN ParseInt(line.parts[3]) ELSE Null
ArduinoIrr(line) ==
  IF Len(line.parts) >= 4 THEN ParseFloat(line.parts[4]) ELSE Null

\* A status branch that is left (continue) only when the line has Complete.
IsStatusComplete(line) == ~line.blank /\ line.kw /\ line.complete
\* The line takes the status branch, which ends with continue.
IsStatus(line) == ~line.blank /\ line.kw
\* A test of the first field alone.
IsReadingByFirst(line) ==
  /\ ~line.blank
  /\ ~line.kw
  /\ Len(line.parts) >= 2
  /\ ~Val1(line).nan

\* The line reaches the buffers: two or more fields, the first two numeric.
IsReading(line) ==
  /\ ~line.blank
  /\ ~IsStatus(line)
  /\ Len(line.parts) >= 2
  /\ ~Val1(line).nan
  /\ ~Val2(line).nan
HasBpm(line) ==
  IsReading(line) /\ Truthy(ArduinoBPM(line)) /\ ArduinoBPM(line).v > 0
HasIrr(line) ==
  /\ HasBpm(line)
  /\ ~ArduinoIrr(line).null
  /\ ~ArduinoIrr(line).nan
  /\ ArduinoIrr(line).v >= 0

\* A status branch that logs the line and does nothing else.
CalibratingAfterLogged(line) == calibrating

\* calibrating after the status branch: a status line that contains Complete
\* clears it.
CalibratingAfter(line) ==
  IF IsStatus(line) /\ line.complete THEN FALSE ELSE calibrating

\* One iteration of the while loop of connectSerial, in a loop whose closure
\* holds monitoringActive = c, on the line the reader yields; t is what
\* Date.now() returns.
ReadLine(c, line, t) ==
  /\ readLoops[c] > 0
  /\ IF HasBpm(line) THEN t >= now ELSE t = now
  /\ calibrating' = CalibratingAfter(line)
  /\ IF IsReading(line)
     THEN /\ samples' = PushSamples(samples, Val2(line).v)
          /\ samples2' =
               PushSamples2(samples2, Val1(line).v, Len(samples) + 1)
     ELSE UNCHANGED <<samples, samples2>>
  /\ IF HasBpm(line)
     THEN /\ bpm' = ArduinoBPM(line).v
          /\ scoreTimer' = IntervalAfterSetBpm(ArduinoBPM(line).v)
          /\ now' = t
          /\ beats' = PushBeat(beats, t)
          /\ monitoringActive' = IF ~c THEN TRUE ELSE monitoringActive
     ELSE UNCHANGED <<bpm, scoreTimer, now, beats, monitoringActive>>
  /\ IF HasIrr(line)
     THEN arduinoIrregularity' =
            PushIrregularity(arduinoIrregularity, ArduinoIrr(line).v)
     ELSE UNCHANGED arduinoIrregularity
  /\ UNCHANGED <<port, scoreVars, readLoops, calTimeouts>>

\* reader.read() resolves with done: the loop breaks and connectSerial returns.
ReadDone(c) ==
  /\ readLoops[c] > 0
  /\ readLoops' = [readLoops EXCEPT ![c] = @ - 1]
  /\ UNCHANGED <<port, calibrating, monitoringActive, bpm, bufferVars,
                 scoreVars, timerVars>>

\* reader.read() rejects: the catch block of connectSerial.
ReadError(c) ==
  /\ readLoops[c] > 0
  /\ readLoops' = [readLoops EXCEPT ![c] = @ - 1]
  /\ calibrating' = FALSE
  /\ UNCHANGED <<port, monitoringActive, bpm, bufferVars, scoreVars,
                 timerVars>>

\* ------------------------------------------------- connect and disconnect
\* connectSerial up to the read loop, when requestPort and open resolve.
\* The Connect button is rendered only while port is null.
ConnectOk ==
  /\ ~port
  /\ LiveLoops < MaxSessions
  /\ PendingTimeouts < MaxSessions
  /\ port' = TRUE
  /\ calibrating' = TRUE
  /\ monitoringActive' = FALSE
  /\ calTimeouts' = [calTimeouts EXCEPT ![CalibrationSeconds] = @ + 1]
  /\ readLoops' = [readLoops EXCEPT ![monitoringActive] = @ + 1]
  /\ UNCHANGED <<bpm, bufferVars, scoreVars, scoreTimer>>

\* connectSerial when requestPort or open rejects: the catch block.
ConnectFail ==
  /\ ~port
  /\ calibrating' = FALSE
  /\ UNCHANGED <<port, monitoringActive, bpm, bufferVars, scoreVars,
                 readLoops, timerVars>>

\* disconnectSerial.  Whether port.close() resolves or rejects, the handler
\* goes on to reset the state; it does not touch the reader or the timeout.
DisconnectSerial ==
  /\ port
  /\ port' = FALSE
  /\ calibrating' = FALSE
  /\ monitoringActive' = FALSE
  /\ bpm' = 0
  /\ scoreTimer' = IntervalAfterSetBpm(0)
  /\ samples' = <<>>
  /\ samples2' = <<>>
  /\ beats' = <<>>
  /\ arduinoIrregularity' = <<>>
  /\ UNCHANGED <<now, scoreVars, readLoops, calTimeouts>>

\* startMonitoring: its button is rendered while a port is held and neither
\* flag is set.
StartMonitoring ==
  /\ port
  /\ ~monitoringActive
  /\ ~calibrating
  /\ monitoringActive' = TRUE
  /\ UNCHANGED <<port, calibrating, bpm, bufferVars, scoreVars, readLoops,
                 timerVars>>

\* ------------------------------------------------------------- the timers
\* A callback that ends the calibration and does not start the monitoring.
CalibrationTimeoutIdle ==
  /\ calTimeouts[0] > 0
  /\ calTimeouts' = [calTimeouts EXCEPT ![0] = @ - 1]
  /\ calibrating' = FALSE
  /\ UNCHANGED <<port, monitoringActive, bpm, bufferVars, scoreVars,
                 readLoops, scoreTimer>>

\* The callback of a setTimeout(..., 4000) that a connect registered.
CalibrationTimeout ==
  /\ calTimeouts[0] > 0
  /\ calTimeouts' = [calTimeouts EXCEPT ![0] = @ - 1]
  /\ calibrating' = FALSE
  /\ monitoringActive' = TRUE
  /\ UNCHANGED <<port, bpm, bufferVars, scoreVars, readLoops, scoreTimer>>

\* What compute leaves in healthCategory and breakdown.
Assessment(beatList, hist, b, oldBreakdown) ==
  IF Insufficient(beatList, hist)
  THEN [healthCategory |-> [level |-> "Insufficient data", score |-> 0],
        breakdown |-> oldBreakdown]
  ELSE LET hr == HeartRate(b)
           bradyScore == BradyScore(hr)
           tachyScore == TachyScore(hr)
           irrScore == RoundTimes40(Irregularity(beatList, hist))
           score == Clamp(bradyScore + tachyScore + irrScore)
       IN [healthCategory |-> [level |-> Level(score), score |-> score],
           breakdown |-> [brady |-> bradyScore, tachy |-> tachyScore,
                          irregularity |-> irrScore]]

\* compute, called by the interval.
Compute ==
  /\ scoreTimer = 0
  /\ scoreTimer' = IntervalSeconds
  /\ LET a == Assessment(beats, arduinoIrregularity, bpm, breakdown)
     IN /\ healthCategory' = a.healthCategory
        /\ breakdown' = a.breakdown
  /\ UNCHANGED <<port, calibrating, monitoringActive, bpm, bufferVars,
                 readLoops, calTimeouts>>

\* A second passes; a timer that is due fires before the next second does.
Tick ==
  /\ scoreTimer > 0
  /\ calTimeouts[0] = 0
  /\ scoreTimer' = scoreTimer - 1
  /\ calTimeouts' =
       [r \in 0..CalibrationSeconds |->
          IF r < CalibrationSeconds THEN calTimeouts[r + 1] ELSE 0]
  /\ UNCHANGED <<port, calibrating, monitoringActive, bpm, bufferVars,
                 scoreVars, readLoops>>

\* --------------------------------------------------------- the histories
\* The seconds since compute last ran.
SinceReset == sinceCompute' = 0
SinceTick == sinceCompute' = Min(sinceCompute + 1, IntervalSeconds + 1)

\* ------------------------------------------------------ the whole program
\* Every handler, on lines of fixed values read at a clock that stands
\* still: an empty line, a status line, a status line with Complete, a short
\* line and the reading 0.1,0.2,45,0.2.
SessionLines ==
  { Line(TRUE, FALSE, FALSE, <<>>),
    Line(FALSE, TRUE, FALSE, <<Junk>>),
    Line(FALSE, TRUE, TRUE, <<Junk>>),
    DataLine(<<LeadITok>>),
    DataLine(<<LeadITok, LeadIITok, Num(450), Num(2)>>) }

Next ==
  \/ /\ \E c \in BOOLEAN, line \in SessionLines : ReadLine(c, line, now)
     /\ UNCHANGED quiet
  \/ (\E c \in BOOLEAN : ReadDone(c)) /\ UNCHANGED quiet
  \/ (\E c \in BOOLEAN : ReadError(c)) /\ UNCHANGED quiet
  \/ ConnectOk /\ UNCHANGED quiet
  \/ ConnectFail /\ UNCHANGED quiet
  \/ DisconnectSerial /\ UNCHANGED quiet
  \/ StartMonitoring /\ UNCHANGED quiet
  \/ CalibrationTimeout /\ UNCHANGED quiet
  \/ Compute /\ UNCHANGED quiet
  \/ Tick /\ UNCHANGED quiet

Spec == Init /\ [][Next]_vars

\* ------------------------------------------------------------ the cadence
\* Every handler again, on lines that change the BPM, with the history of
\* the interval.
CadenceLines ==
  { DataLine(<<LeadITok, LeadIITok, Num(450)>>),
    DataLine(<<LeadITok, LeadIITok, Num(1300)>>) }

NextCadence ==
  \/ /\ \E c \in BOOLEAN, line \in CadenceLines : ReadLine(c, line, now)
     /\ UNCHANGED quiet
  \/ (\E c \in BOOLEAN : ReadDone(c)) /\ UNCHANGED quiet
  \/ (\E c \in BOOLEAN : ReadError(c)) /\ UNCHANGED quiet
  \/ ConnectOk /\ UNCHANGED quiet
  \/ ConnectFail /\ UNCHANGED quiet
  \/ DisconnectSerial /\ UNCHANGED quiet
  \/ StartMonitoring /\ UNCHANGED quiet
  \/ CalibrationTimeout /\ UNCHANGED quiet
  \/ Compute /\ SinceReset /\ UNCHANGED quietButSince
  \/ Tick /\ SinceTick /\ UNCHANGED quietButSince

SpecCadence == Init /\ [][NextCadence]_vars

\* ------------------------------------------------------------ the display
\* Every handler again, with the history of the assessment: whether what
\* healthCategory holds is the initial value or was computed after
\* disconnectSerial last emptied the buffers.
Outdated == fresh' = (healthCategory.level = "--")
Renewed == fresh' = TRUE

NextDisplay ==
  \/ /\ \E c \in BOOLEAN, line \in SessionLines : ReadLine(c, line, now)
     /\ UNCHANGED quiet
  \/ (\E c \in BOOLEAN : ReadDone(c)) /\ UNCHANGED quiet
  \/ (\E c \in BOOLEAN : ReadError(c)) /\ UNCHANGED quiet
  \/ ConnectOk /\ UNCHANGED quiet
  \/ ConnectFail /\ UNCHANGED quiet
  \/ DisconnectSerial /\ Outdated /\ UNCHANGED quietButFresh
  \/ StartMonitoring /\ UNCHANGED quiet
  \/ CalibrationTimeout /\ UNCHANGED quiet
  \/ Compute /\ Renewed /\ UNCHANGED quietButFresh
  \/ Tick /\ UNCHANGED quiet

SpecDisplay == Init /\ [][NextDisplay]_vars

\* -------------------------------------------------------------- the score
\* The handlers that write what compute reads, and compute, on readings of
\* varied BPM, irregularity and arrival time.
ScoreLines ==
  { DataLine(<<LeadITok, LeadIITok, b>>) : b \in {Num(450), Num(720)} }
  \cup { DataLine(<<LeadITok, LeadIITok, Num(450), i>>) :
           i \in {Num(2), Num(25)} }

\* A session in Monitoring, as the program is five seconds after a connect
\* on a silent device: the timeout has fired and compute has run.
InitScore ==
  /\ port = TRUE
  /\ calibrating = FALSE
  /\ monitoringActive = TRUE
  /\ bpm = 0
  /\ samples = <<>>
  /\ samples2 = <<>>
  /\ beats = <<>>
  /\ arduinoIrregularity = <<>>
  /\ healthCategory = [level |-> "Insufficient data", score |-> 0]
  /\ breakdown = [brady |-> 0, tachy |-> 0, irregularity |-> 0]
  /\ readLoops = [c \in BOOLEAN |-> IF c THEN 0 ELSE 1]
  /\ calTimeouts = [r \in 0..CalibrationSeconds |-> 0]
  /\ scoreTimer = IntervalSeconds
  /\ now = 0
  /\ HistoryInit
  /\ FramerInit(<<>>)

NextScore ==
  \/ /\ \E c \in BOOLEAN, line \in ScoreLines, t \in 0..MaxNow :
          ReadLine(c, line, t)
     /\ UNCHANGED quiet
  \/ DisconnectSerial /\ UNCHANGED quiet
  \/ Compute /\ UNCHANGED quiet
  \/ Tick /\ UNCHANGED quiet

SpecScore == InitScore /\ [][NextScore]_vars

\* ------------------------------------------------------------ compute alone
\* compute applied to what a monitoring session can hold a second after its
\* last run: a BPM at and around the thresholds of the scorer with a history
\* of device values of 0, 0.3 and 1.0, or no history and a list of beats 1 or
\* 2 clock units apart, or such a history together with one beat or three.  The lists are as long as the windows of compute
\* need, not as short as the capacities above.
HeartRates == {0, 1, 49, 50, 59, 60, 70, 100, 101, 120, 121, 300}
Histories == UNION {[1..n -> {0, 3, 10}] : n \in 1..MaxHistory}
Gaps == UNION {[1..n -> {1, 2}] : n \in 0..(MaxBeatList - 1)}
\* The timestamps of a first beat at 0 and of the beats that follow it at
\* the given gaps.
Stamps(gaps) ==
  [i \in 1..(Len(gaps) + 1) |-> SumSeq(SubSeq(gaps, 1, i - 1))]
BeatLists == {<<>>} \cup {Stamps(g) : g \in Gaps}

InitCompute ==
  /\ port = TRUE
  /\ calibrating = FALSE
  /\ monitoringActive = TRUE
  /\ \/ /\ bpm \in HeartRates
        /\ arduinoIrregularity \in Histories
        /\ beats = <<>>
     \/ /\ bpm \in {0, 45}
        /\ arduinoIrregularity = <<>>
        /\ beats \in BeatLists
     \/ /\ bpm = 45
        /\ arduinoIrregularity \in Histories
        /\ beats \in {<<0>>, <<0, 1, 3>>}
  /\ samples = <<>>
  /\ samples2 = <<>>
  /\ healthCategory = [level |-> "Insufficient data", score |-> 0]
  /\ breakdown = [brady |-> 0, tachy |-> 0, irregularity |-> 0]
  /\ readLoops = [c \in BOOLEAN |-> IF c THEN 0 ELSE 1]
  /\ calTimeouts = [r \in 0..CalibrationSeconds |-> 0]
  /\ scoreTimer = IntervalSeconds
  /\ now = 0
  /\ HistoryInit
  /\ FramerInit(<<>>)

NextCompute ==
  \/ Compute /\ UNCHANGED quiet
  \/ Tick /\ UNCHANGED quiet

SpecCompute == InitCompute /\ [][NextCompute]_vars

\* ------------------------------------------------------------- the buffers
\* The handlers that write the buffers or end a read loop, on readings whose
\* values count the pushes: the n-th reading since the buffers were emptied
\* carries the leads -n and n, the k-th irregularity is k, and Date.now()
\* advances by one with every beat.
MaxPushes == MAX_SAMPLES + 1

RingLines ==
  LET n == pushedLeads + 1
      k == pushedIrr + 1
  IN { Line(FALSE, TRUE, FALSE, <<Num(-n), Num(n), Num(450), Num(k)>>),
       DataLine(<<Num(n)>>),
       DataLine(<<Num(-n), Num(n)>>),
       DataLine(<<Num(-n), Num(n), Num(450)>>),
       DataLine(<<Num(-n), Num(n), Num(450), Num(k)>>) }

Pushed(line) ==
  /\ pushedLeads' = pushedLeads + (IF IsReading(line) THEN 1 ELSE 0)
  /\ pushedBeats' = pushedBeats + (IF HasBpm(line) THEN 1 ELSE 0)
  /\ pushedIrr' = pushedIrr + (IF HasIrr(line) THEN 1 ELSE 0)

Emptied ==
  /\ pushedLeads' = 0
  /\ pushedBeats' = 0
  /\ pushedIrr' = 0

NextRing ==
  \/ \E c \in BOOLEAN, line \in RingLines :
       /\ pushedLeads < MaxPushes
       /\ ReadLine(c, line, IF HasBpm(line) THEN now + 1 ELSE now)
       /\ Pushed(line)
       /\ UNCHANGED quietButPushes
  \/ (\E c \in BOOLEAN : ReadDone(c)) /\ UNCHANGED quiet
  \/ (\E c \in BOOLEAN : ReadError(c)) /\ UNCHANGED quiet
  \/ ConnectOk /\ UNCHANGED quiet
  \/ ConnectFail /\ UNCHANGED quiet
  \/ DisconnectSerial /\ Emptied /\ UNCHANGED quietButPushes
  \/ StartMonitoring /\ UNCHANGED quiet

SpecRing == Init /\ [][NextRing]_vars

\* --------------------------------------------------------------- the lines
\* The handlers of SpecRing again, on lines of every kind: empty, status with
\* and without Complete (one of them with the fields of a reading),
\* malformed (too short, or a first or second field that is no number) and
\* readings without a BPM, with a BPM of 0 and with a BPM, with and without
\* an irregularity, the values counting the pushes as above;
\* lastKind records what kind of line a step has processed ("none" when the
\* step is not a read).
Malformed(line) ==
  /\ ~line.blank
  /\ ~line.kw
  /\ \/ Len(line.parts) < 2
     \/ ~line.parts[1].num
     \/ ~line.parts[2].num

Kind(line) ==
  IF line.blank THEN "empty"
  ELSE IF line.kw THEN (IF line.complete THEN "complete" ELSE "status")
  ELSE IF Malformed(line) THEN "malformed"
  ELSE "reading"

FeedLines ==
  LET n == pushedLeads + 1
      k == pushedIrr + 1
  IN { Line(TRUE, FALSE, FALSE, <<>>),
       Line(FALSE, TRUE, FALSE, <<Junk>>),
       Line(FALSE, TRUE, TRUE, <<Junk>>),
       Line(FALSE, TRUE, FALSE, <<Num(-n), Num(n), Num(450), Num(k)>>),
       DataLine(<<Num(n)>>),
       DataLine(<<Junk, Num(n)>>),
       DataLine(<<Num(-n), Junk>>),
       DataLine(<<Junk, Num(n), Num(450), Num(k)>>),
       DataLine(<<Num(-n), Num(n)>>),
       DataLine(<<Num(-n), Num(n), Num(0), Num(k)>>),
       DataLine(<<Num(-n), Num(n), Num(450), Junk>>),
       DataLine(<<Num(-n), Num(n), Num(450), Num(k)>>) }

NotARead == lastKind' = "none"

NextLines ==
  \/ \E c \in BOOLEAN, line \in FeedLines :
       /\ pushedLeads < MaxPushes
       /\ ReadLine(c, line, IF HasBpm(line) THEN now + 1 ELSE now)
       /\ Pushed(line)
       /\ lastKind' = Kind(line)
       /\ UNCHANGED quietButLines
  \/ /\ \E c \in BOOLEAN : ReadDone(c)
     /\ NotARead /\ UNCHANGED <<pushVars, quietButLines>>
  \/ /\ \E c \in BOOLEAN : ReadError(c)
     /\ NotARead /\ UNCHANGED <<pushVars, quietButLines>>
  \/ ConnectOk /\ NotARead /\ UNCHANGED <<pushVars, quietButLines>>
  \/ ConnectFail /\ NotARead /\ UNCHANGED <<pushVars, quietButLines>>
  \/ DisconnectSerial /\ Emptied /\ NotARead /\ UNCHANGED quietButLines
  \/ StartMonitoring /\ NotARead /\ UNCHANGED <<pushVars, quietButLines>>

SpecLines == Init /\ [][NextLines]_vars

\* --------------------------------------------------------- the line framer
\* Text is a sequence of characters; "\n" is the delimiter.
Chars == {"a", ",", "\n"}
Texts == UNION {[1..n -> Chars] : n \in 0..MaxText}

\* String.prototype.split('\n'): the pieces between the delimiters, of which
\* there is always at least one.
RECURSIVE SplitNewline(_)
SplitNewline(str) ==
  IF \A i \in 1..Len(str) : str[i] # "\n"
  THEN <<str>>
  ELSE LET i == CHOOSE j \in 1..Len(str) :
                  str[j] = "\n" /\ \A h \in 1..(j - 1) : str[h] # "\n"
       IN <<SubSeq(str, 1, i - 1)>>
            \o SplitNewline(SubSeq(str, i + 1, Len(str)))

\* A transform that splits the chunk alone and enqueues what it held as a
\* line of its own.
TransformResultUnjoined(held, chunk) ==
  LET lines == SplitNewline(chunk)
  IN [container |-> lines[Len(lines)],
      enqueue |-> (IF held # <<>> THEN <<held>> ELSE <<>>)
                    \o SubSeq(lines, 1, Len(lines) - 1)]

\* transform(chunk, controller): what it leaves in container and what it
\* enqueues.
TransformResult(held, chunk) ==
  LET lines == SplitNewline(held \o chunk)
  IN [container |-> lines[Len(lines)],
      enqueue |-> SubSeq(lines, 1, Len(lines) - 1)]

\* The transport delivers the next n characters as one chunk.
Transform(n) ==
  /\ ~flushed
  /\ fed + n <= Len(text)
  /\ LET r == TransformResult(container, SubSeq(text, fed + 1, fed + n))
     IN /\ container' = r.container
        /\ enqueued' = enqueued \o r.enqueue
  /\ fed' = fed + n
  /\ UNCHANGED <<text, flushed>>

\* flush(controller), when the stream closes.
Flush ==
  /\ ~flushed
  /\ fed = Len(text)
  /\ flushed' = TRUE
  /\ enqueued' = IF container # <<>> THEN Append(enqueued, container)
                 ELSE enqueued
  /\ UNCHANGED <<container, text, fed>>

appVars ==
  <<port, calibrating, monitoringActive, bpm, bufferVars, scoreVars,
    readLoops, timerVars, sinceCompute, pushVars, lastKind, fresh>>

\* The history of the chunks: whether one has begun where the last one left
\* a line unfinished.
Straddles == container # <<>> /\ text[fed + 1] # "\n"

InitFramer == AppInit /\ HistoryInit /\ \E t \in Texts : FramerInit(t)

NextFramer ==
  \/ /\ \E n \in 1..MaxText : Transform(n)
     /\ straddled' = (straddled \/ Straddles)
     /\ UNCHANGED appVars
  \/ Flush /\ UNCHANGED <<appVars, straddled>>

SpecFramer == InitFramer /\ [][NextFramer]_vars

\* ================================================================ properties
\* ------------------------------------------------------------ ring buffers
\* C1: in every reachable state of the whole program (connects, lines read,
\* timers, compute runs, disconnects) no buffer is longer than its capacity:
\* samples and samples2 hold at most MAX_SAMPLES items, beats at most
\* MAX_BEATS and arduinoIrregularity at most MAX_IRR.
BuffersWithinCapacity ==
  /\ Len(samples) <= MAX_SAMPLES
  /\ Len(samples2) <= MAX_SAMPLES
  /\ Len(beats) <= MAX_BEATS
  /\ Len(arduinoIrregularity) <= MAX_IRR

\* The four buffers are full at once.
BuffersFull ==
  /\ Len(samples) = MAX_SAMPLES
  /\ Len(samples2) = MAX_SAMPLES
  /\ Len(beats) = MAX_BEATS
  /\ Len(arduinoIrregularity) = MAX_IRR

\* The last cap of m items pushed in the order 1, 2, ..., m, offset by base.
LastPushed(cap, m, base) == [i \in 1..cap |-> base + m - cap + i]

\* C2: once more items than its capacity C have been pushed into a buffer
\* since it was emptied, the buffer holds exactly C items, and they are the
\* last C items pushed, oldest first.  (The n-th reading carries the leads
\* -n and n, the k-th irregularity is k, and the beats are stamped with
\* consecutive values of the clock.)
BuffersHoldLastPushed ==
  /\ pushedLeads > MAX_SAMPLES =>
        /\ samples = LastPushed(MAX_SAMPLES, pushedLeads, 0)
        /\ samples2 = [i \in 1..MAX_SAMPLES |->
                         -LastPushed(MAX_SAMPLES, pushedLeads, 0)[i]]
  /\ pushedBeats > MAX_BEATS =>
        beats = LastPushed(MAX_BEATS, pushedBeats, now - pushedBeats)
  /\ pushedIrr > MAX_IRR =>
        arduinoIrregularity = LastPushed(MAX_IRR, pushedIrr, 0)

\* Every buffer has been pushed into more often than it has room.
BuffersOverrun ==
  /\ pushedLeads > MAX_SAMPLES
  /\ pushedBeats > MAX_BEATS
  /\ pushedIrr > MAX_IRR

\* ------------------------------------------------------------- line framer
\* The lines of a text, read off the positions of its delimiters: the k-th
\* line lies between the (k-1)-th and the k-th delimiter, and what follows
\* the last delimiter is the trailing partial.
Delimiters(t) == {i \in 1..Len(t) : t[i] = "\n"}
Delimiter(t, k) ==
  IF k = 0 THEN 0
  ELSE CHOOSE i \in Delimiters(t) :
         Cardinality({j \in Delimiters(t) : j <= i}) = k
WholeLines(t) ==
  [k \in 1..Cardinality(Delimiters(t)) |->
     SubSeq(t, Delimiter(t, k - 1) + 1, Delimiter(t, k) - 1)]
TrailingPartial(t) ==
  SubSeq(t, Delimiter(t, Cardinality(Delimiters(t))) + 1, Len(t))

\* C3: however the text is cut into chunks, once every chunk has been
\* transformed and flush has run, the lines enqueued are the lines of the
\* text: its N delimited lines in order, followed by the trailing partial
\* when that is not empty (N + 1 lines then, N otherwise).  A line that
\* straddles two chunks is therefore enqueued once, whole.
FramedAlike ==
  flushed =>
    LET n == Cardinality(Delimiters(text))
    IN IF TrailingPartial(text) = <<>>
       THEN enqueued = WholeLines(text) /\ Len(enqueued) = n
       ELSE /\ enqueued = Append(WholeLines(text), TrailingPartial(text))
            /\ Len(enqueued) = n + 1

\* A text of two lines or more has been framed from chunks one of which
\* ended in the middle of a line.
FramedAcrossChunks == flushed /\ straddled /\ Len(enqueued) >= 2

\* -------------------------------------------------------------- the scorer
\* C4: in every reachable state healthCategory.score is an integer from 0 to
\* 100, whatever BPM and irregularity values the lines have carried.
ScoreInRange == healthCategory.score \in 0..100

\* The parts of a computed score add up to more than 100.
ScoreClamped ==
  /\ healthCategory.score = 100
  /\ breakdown.brady + breakdown.tachy + breakdown.irregularity > 100

\* Whether an irregularity figure lies in [0, 1].
InUnitInterval(irr) == 0 <= irr.num /\ irr.num <= irr.den

\* C5: the irregularity compute derives from the buffers is in [0, 1]
\* whenever there is data to derive it from, on the device path and on the
\* local path, and breakdown.irregularity is in 0..40.
IrregularityInRange ==
  /\ ~Insufficient(beats, arduinoIrregularity) =>
        InUnitInterval(Irregularity(beats, arduinoIrregularity))
  /\ breakdown.irregularity \in 0..40

\* C6: in every reachable state, the state after a compute that found
\* insufficient data included, breakdown and healthCategory.score come from
\* the same run of compute: the clamped sum of the three parts of breakdown
\* is the score.
AssessmentFromOneRun ==
  Clamp(breakdown.brady + breakdown.tachy + breakdown.irregularity)
    = healthCategory.score

\* C7: a run of compute that finds arduinoIrregularity empty and fewer than
\* 3 beats leaves the level "Insufficient data" and the score 0 and computes
\* nothing (breakdown is as it was); a run that finds a device value or at
\* least 3 beats leaves one of the levels Normal, Moderate, High.
ComputeShortCircuits ==
  [][Compute =>
       IF arduinoIrregularity = <<>> /\ Len(beats) < 3
       THEN /\ healthCategory' = [level |-> "Insufficient data", score |-> 0]
            /\ breakdown' = breakdown
       ELSE healthCategory'.level \in {"Normal", "Moderate", "High"}]_vars

\* compute has scored, and then found insufficient data.
ShortCircuitedAfterScoring ==
  /\ healthCategory = [level |-> "Insufficient data", score |-> 0]
  /\ breakdown.brady + breakdown.tachy + breakdown.irregularity > 0
  /\ arduinoIrregularity = <<>>
  /\ Len(beats) < 3

\* C8: compute runs every second whatever the lines bring, lines that change
\* the BPM more than once a second included: no second boundary passes
\* without compute having run since the boundary before.
ComputeEverySecond == sinceCompute <= IntervalSeconds

\* ------------------------------------------------------------- the session
BuffersEmpty ==
  /\ samples = <<>>
  /\ samples2 = <<>>
  /\ beats = <<>>
  /\ arduinoIrregularity = <<>>

\* C9: a session that a successful connect starts, a reconnect after a
\* disconnect included, starts with the four buffers empty and in
\* calibration, so that nothing read before it is in the buffers.
SessionStartsClean ==
  [][ConnectOk =>
       /\ BuffersEmpty'
       /\ calibrating' /\ ~monitoringActive']_vars

Disconnected == ~port /\ ~calibrating /\ ~monitoringActive

\* C10: disconnectSerial leaves the session disconnected with the buffers
\* empty, and a disconnected session stays so (not monitoring, not
\* calibrating) for as long as no port is opened: no timer and no event of
\* a session that has ended sets either flag.
StaysDisconnected ==
  [][/\ DisconnectSerial => (Disconnected' /\ BuffersEmpty')
     /\ (Disconnected /\ ~port') => Disconnected']_vars

\* C11: disconnectSerial ends the read loop: while no port is held, from the
\* disconnect until the next connect, no line is processed, so that the
\* four buffers and bpm stay as the disconnect left them.
NoIngestionWithoutPort ==
  [][(~port /\ ~port') =>
       UNCHANGED <<samples, samples2, beats, arduinoIrregularity, bpm>>]_vars

\* C12: a session that stays connected is in Monitoring (monitoringActive
\* set, calibrating not set) once its 4-second timeout has fired.  The
\* timeout of the session is the last one registered, so it has fired when
\* none is pending.
MonitoringAfterTimeout ==
  (port /\ PendingTimeouts = 0) => (monitoringActive /\ ~calibrating)

\* A session whose timeout has fired, its read loop still reading.
TimeoutFiredInSession ==
  /\ port
  /\ PendingTimeouts = 0
  /\ LiveLoops > 0
  /\ monitoringActive

\* A read loop processes a reading with a positive BPM.
ReadsBpm == \E c \in BOOLEAN, line \in SessionLines :
              HasBpm(line) /\ ReadLine(c, line, now)

\* C13: a reading with a positive BPM that is processed while the session
\* is calibrating puts it in Monitoring at once (monitoringActive set,
\* calibrating not set), in the first session and in every later one.
BpmEndsCalibration ==
  [][(port /\ calibrating /\ ReadsBpm) =>
       (monitoringActive' /\ ~calibrating')]_vars

\* C14 as stated: a status line with Complete that is processed while the
\* session is calibrating ends the calibration and leaves the session in
\* Monitoring.
CompleteStartsMonitoring ==
  [][(port /\ calibrating /\ lastKind' = "complete") =>
       (monitoringActive' /\ ~calibrating')]_vars

\* C14 as amended: such a line ends the calibration and leaves
\* monitoringActive as it was; the session is in Monitoring afterwards only
\* if monitoringActive was set already.
CompleteEndsCalibration ==
  [][(port /\ calibrating /\ lastKind' = "complete") =>
       (~calibrating' /\ monitoringActive' = monitoringActive)]_vars

\* Complete has just ended the calibration of a session; the session waits
\* for Start Monitoring.
CalibrationEndedEarly ==
  /\ port
  /\ lastKind = "complete"
  /\ ~calibrating
  /\ ~monitoringActive
  /\ PendingTimeouts = 1

\* C15: a transport failure, be it a rejected open or a failed read, leaves
\* the session disconnected (no port, not calibrating, not monitoring) with
\* the four buffers empty.
FailureDisconnects ==
  [][(ConnectFail \/ \E c \in BOOLEAN : ReadError(c)) =>
       (Disconnected' /\ BuffersEmpty')]_vars

\* C16: a malformed line changes neither the buffers nor bpm nor the state
\* of the session, and the loop that read it goes on reading: every reading
\* processed since the buffers were emptied is in samples and samples2, in
\* the order read (as long as they have room), whatever malformed lines came
\* in between.
MalformedLineSkipped ==
  /\ [][lastKind' = "malformed" =>
          UNCHANGED <<port, calibrating, monitoringActive, bpm, samples,
                      samples2, beats, arduinoIrregularity, readLoops>>]_vars
  /\ [](pushedLeads <= MAX_SAMPLES =>
          /\ samples = [i \in 1..pushedLeads |-> i]
          /\ samples2 = [i \in 1..pushedLeads |-> -i])

\* A malformed line has just been processed in a session that holds
\* readings; its loop is still reading.
MalformedAmongReadings ==
  /\ lastKind = "malformed"
  /\ port
  /\ LiveLoops > 0
  /\ pushedLeads > 1
  /\ Len(samples) = pushedLeads

\* The Heart Health Index card, which shows healthCategory and breakdown, is
\* rendered.
HealthCardShown == monitoringActive

\* C17: the assessment is shown only in a monitoring session (a port is
\* held), and what is shown was computed after the buffers were last
\* emptied, never from the buffers of an earlier session.
ShownAssessmentIsCurrent == HealthCardShown => (port /\ fresh)

\* C18: the session is in exactly one of the states Disconnected,
\* Calibrating, Monitoring: calibrating and monitoringActive are never both
\* set, monitoringActive is never set while no port is held, and while a
\* port is held one of the two is set.
OneSessionState ==
  /\ ~(calibrating /\ monitoringActive)
  /\ monitoringActive => port
  /\ port => (calibrating \/ monitoringActive)

\* ------------------------------------------------------- the scoring rules
\* The documented rules, written as tables over the ranges of the rate.
RefBradyPoints(hr) ==
  IF hr \in 0..49 THEN 40 ELSE IF hr \in 50..59 THEN 20 ELSE 0
RefTachyPoints(hr) ==
  IF hr \in 121..300 THEN 40 ELSE IF hr \in 101..120 THEN 20 ELSE 0
\* round(irregularity * 40): the integer k with k - 1/2 <= 40 * irr < k + 1/2.
RefIrregularityPoints(irr) ==
  CHOOSE k \in 0..40 :
    IF irr.sq
    THEN /\ k = 0 \/ (2 * k - 1) * (2 * k - 1) * irr.den <= 6400 * irr.num
         /\ 6400 * irr.num < (2 * k + 1) * (2 * k + 1) * irr.den
    ELSE /\ (2 * k - 1) * irr.den <= 80 * irr.num
         /\ 80 * irr.num < (2 * k + 1) * irr.den
RefScore(hr, irr) ==
  LET sum == RefBradyPoints(hr) + RefTachyPoints(hr)
               + RefIrregularityPoints(irr)
  IN IF sum > 100 THEN 100 ELSE IF sum < 0 THEN 0 ELSE sum
RefCategory(score) ==
  IF score \in 70..100 THEN "High"
  ELSE IF score \in 35..69 THEN "Moderate"
  ELSE "Normal"

\* C19: whenever compute computes a score, for a heart rate hr in 0..300 and
\* an irregularity in [0, 1], breakdown and healthCategory are what the
\* documented rules give: 40 / 20 / 0 points for hr below 50 / below 60 /
\* otherwise, 40 / 20 / 0 points for hr above 120 / above 100 / otherwise,
\* round(irregularity * 40) points, their sum clamped to 0..100 as the
\* score, and High from 70, Moderate from 35, Normal below.
ScoreFollowsRules ==
  [][(Compute /\ ~(arduinoIrregularity = <<>> /\ Len(beats) < 3)) =>
       LET hr == HeartRate(bpm)
           irr == Irregularity(beats, arduinoIrregularity)
       IN (hr \in 0..300 /\ InUnitInterval(irr)) =>
            /\ breakdown' = [brady |-> RefBradyPoints(hr),
                             tachy |-> RefTachyPoints(hr),
                             irregularity |-> RefIrregularityPoints(irr)]
            /\ healthCategory' = [level |-> RefCategory(RefScore(hr, irr)),
                                  score |-> RefScore(hr, irr)]]_vars

\* compute has scored a slow heart with an irregularity strictly between 0
\* and 1 as High.
ScoredHigh ==
  /\ healthCategory.level = "High"
  /\ breakdown.brady = 40
  /\ breakdown.irregularity \in 1..39
  /\ healthCategory.score = 40 + breakdown.irregularity

\* compute has derived an assessment from the beats held (they are the beats
\* it has read: nothing is read in between).
ScoredLocally ==
  /\ arduinoIrregularity = <<>>
  /\ Len(beats) >= 3
  /\ healthCategory.level \in {"Normal", "Moderate", "High"}

\* C20 as stated: when compute has run with no device history and 3 beats or
\* more, the local irregularity is that of the 8 most recent timestamps (7 intervals at
\* most); older timestamps have no influence on it or on the points.
LocalWindowEightStamps ==
  ScoredLocally =>
    /\ LocalIrregularity(beats) = LocalIrregularity(SliceLast(beats, 8))
    /\ breakdown.irregularity
         = RefIrregularityPoints(LocalIrregularity(SliceLast(beats, 8)))

\* C20 as amended: it is that of the 8 most recent intervals, that is of
\* the 9 most recent timestamps; older timestamps have no influence.
LocalWindowEightIntervals ==
  ScoredLocally =>
    /\ LocalIrregularity(beats) = LocalIrregularity(SliceLast(beats, 9))
    /\ breakdown.irregularity
         = RefIrregularityPoints(LocalIrregularity(SliceLast(beats, 9)))

\* compute has scored more than 9 beats of which only the oldest two are
\* further apart than the rest: the irregularity is 0.
OldestGapIgnored ==
  /\ ScoredLocally
  /\ Len(beats) > 9
  /\ beats[2] - beats[1] = 2
  /\ \A i \in 2..(Len(beats) - 1) : beats[i + 1] - beats[i] = 1
  /\ breakdown.irregularity = 0

\* ------------------------------------------------------ the device's figure
\* The arithmetic mean of the last 5 entries of a history (of all of them
\* when there are fewer), the entries being tenths.
RefRecentSum(hist) ==
  SumSeq([i \in 1..Min(5, Len(hist)) |-> hist[Len(hist) + 1 - i]])
RefRecentMean(hist) == Ratio(RefRecentSum(hist), 10 * Min(5, Len(hist)))
SameFigure(a, b) == a.sq = b.sq /\ a.num * b.den = b.num * a.den

\* compute has derived an assessment from the device's values held.
ScoredByDevice ==
  /\ arduinoIrregularity # <<>>
  /\ healthCategory.level \in {"Normal", "Moderate", "High"}

\* C21: when compute has run on a non-empty arduinoIrregularity, the
\* irregularity it used is the arithmetic mean of the last 5 entries at
\* most, and the points are that mean's, however many beats there are (one,
\* or three and more): the beats have no influence.
DeviceMeanUsed ==
  ScoredByDevice =>
    /\ SameFigure(Irregularity(beats, arduinoIrregularity),
                  RefRecentMean(arduinoIrregularity))
    /\ breakdown.irregularity
         = RefIrregularityPoints(RefRecentMean(arduinoIrregularity))

\* compute has scored a history of more than 5 entries, whose oldest entry
\* alone is not 0, while three beats of uneven gaps were held: 0 points.
DeviceFigureOverBeats ==
  /\ ScoredByDevice
  /\ Len(arduinoIrregularity) > 5
  /\ arduinoIrregularity[1] = 10
  /\ Len(beats) >= 3
  /\ breakdown.irregularity = 0

\* --------------------------------------------------------------- the parser
\* What a line carries, read off its fields: a BPM when the third field is a
\* positive integer, an irregularity when the fourth is a number not below 0.
BpmPresent(line) ==
  /\ Len(line.parts) >= 3
  /\ line.parts[3].num
  /\ line.parts[3].tenths >= 10
IrrPresent(line) ==
  /\ Len(line.parts) >= 4
  /\ line.parts[4].num
  /\ line.parts[4].tenths >= 0
\* A step in which a read loop processes the line, in the history's terms.
Processes(line) ==
  /\ lastKind' = Kind(line)
  /\ Pushed(line)
  /\ \E c \in BOOLEAN :
       ReadLine(c, line, IF HasBpm(line) THEN now + 1 ELSE now)

\* C22: processing a reading pushes its two leads whatever else it carries,
\* pushes a beat timestamp exactly when it carries a BPM, and pushes its
\* irregularity exactly when it carries one, a reading with no BPM or a BPM
\* of 0 included.
ReadingStoredByField ==
  [][\A line \in FeedLines :
       (Kind(line) = "reading" /\ Processes(line)) =>
         /\ samples' = PushSamples(samples, line.parts[2].tenths)
         /\ samples2' # samples2
         /\ (beats' # beats) <=> BpmPresent(line)
         /\ (arduinoIrregularity' # arduinoIrregularity)
              <=> IrrPresent(line)]_vars

\* C23: processing a status line, a line with one of the keywords, leaves
\* the four buffers and bpm as they were, also when its fields are those of
\* a reading.
StatusLineNotParsed ==
  [][lastKind' \in {"status", "complete"} =>
       UNCHANGED <<samples, samples2, beats, arduinoIrregularity, bpm>>]_vars

\* A status line has just been processed in a session that has read a
\* reading with a BPM and an irregularity.
StatusAmongReadings ==
  /\ lastKind = "status"
  /\ port
  /\ bpm = 45
  /\ Len(samples) = pushedLeads
  /\ Len(arduinoIrregularity) = pushedIrr
  /\ pushedIrr > 0

\* C24: in every reachable state beats is non-decreasing from oldest to
\* newest (the clock never goes back), after evictions and disconnects as
\* well, so that every inter-beat interval compute forms is 0 or more.
BeatsInOrder ==
  /\ \A i \in 1..(Len(beats) - 1) : beats[i] <= beats[i + 1]
  /\ \A i \in 1..(Len(beats) - 1) : InterBeatIntervals(beats)[i] >= 0

\* beats has evicted its oldest entries in a session opened after a
\* disconnect.
BeatsEvictedAfterReconnect ==
  /\ pushedBeats > MAX_BEATS
  /\ Len(beats) = MAX_BEATS
  /\ beats[1] > pushedBeats

\* C25: in every reachable state samples and samples2 have the same length:
\* a reading pushes to both and trims both in one step, and a disconnect
\* empties both.
LeadsInStep == Len(samples) = Len(samples2)

\* Both leads have been trimmed.
LeadsTrimmed ==
  /\ pushedLeads > MAX_SAMPLES
  /\ Len(samples2) = MAX_SAMPLES
  /\ samples2[1] = -(pushedLeads - MAX_SAMPLES + 1)

\* compute has derived an assessment from what is held.
Scored == healthCategory.level \in {"Normal", "Moderate", "High"}

\* C26: in an assessment brady and tachy are never both above 0; when the
\* irregularity is in [0, 1] the score is the plain sum of the three parts
\* and is 80 at most; and the level High goes with 40 points for the heart
\* rate and 30 or more for the irregularity.
RatePointsExclusive ==
  Scored =>
    /\ ~(breakdown.brady > 0 /\ breakdown.tachy > 0)
    /\ InUnitInterval(Irregularity(beats, arduinoIrregularity)) =>
          /\ healthCategory.score <= 80
          /\ healthCategory.score =
                breakdown.brady + breakdown.tachy + breakdown.irregularity
          /\ healthCategory.level = "High" =>
                /\ breakdown.brady + breakdown.tachy = 40
                /\ breakdown.irregularity >= 30

\* compute has scored a fast heart with exactly 30 points of irregularity
\* as High.
HighAtThreshold ==
  /\ healthCategory = [level |-> "High", score |-> 70]
  /\ breakdown = [brady |-> 0, tachy |-> 40, irregularity |-> 30]

====
